---------------------------- MODULE Spec2Model ----------------------------
(***************************************************************************)
(* Disposable-income model (q1): tax engine, expenditure engine and their  *)
(* composition, as a state machine of one caller invoking the functions.   *)
(*                                                                         *)
(* Number representation.  The program computes in binary floating point;  *)
(* the model computes in exact decimal arithmetic:                         *)
(*   - gross_income, thresholds, baselines : whole dollars (Int)           *)
(*   - amounts returned after round(x, 2)  : whole cents (Int)             *)
(*   - federal marginal rates              : percent                       *)
(*   - FICA and state rates                : basis points (1/10000)        *)
(*   - an unrounded value                  : numerator and denominator     *)
(* round(x, 2) of a float rounds the binary value of x, so at an exact     *)
(* decimal tie (x.xx5) the direction depends on the representation error   *)
(* of x.  The model keeps that direction as the variable tieUp, chosen     *)
(* once and never changed: a tie rounds away from zero when tieUp holds    *)
(* and toward zero otherwise.                                              *)
(***************************************************************************)
EXTENDS Integers, Sequences, FiniteSets, TLC

VARIABLES
    tieUp,      \* direction round() takes at an exact decimal tie
    pc,         \* position of the caller
    call,       \* the call in progress or just finished: function and arguments
    ret,        \* its outcome: a returned value or a raised error
    log,        \* the functions invoked since the call was made, in order
    exp_data,   \* the caller's expenditure table, built once by the loader
    taxes,      \* compute_disposable_income's local: the tax engine's result
    exp_result, \* compute_disposable_income's local: the expenditure engine's result
    prev,       \* an earlier call the caller kept: its arguments and its outcome
    threads     \* concurrent callers: each one's position, call, outcome and locals

vars == <<tieUp, pc, call, ret, log, exp_data, taxes, exp_result, prev, threads>>

---------------------------------------------------------------------------
(* Bounds of the model *)

\* incomes k * GridStep, k = 0..MaxGrid, are drawn besides the table thresholds
GridStep == 40000
MaxGrid == 31
\* incomes within MaxDelta dollars of every threshold of the tables are drawn
MaxDelta == 1
\* the expenditure tables the loader may have built: ExpTable(1..NumTables)
NumTables == 2
\* _scale_expenditure is called directly with salary and avg_income at most a
\* factor MaxRatio apart
MaxRatio == 5
\* compute_disposable_income runs in NumCallers threads at once
NumCallers == 2

---------------------------------------------------------------------------
(* constants.py *)

STANDARD_DEDUCTION_SINGLE == 15000

\* upper bound None of the top bracket
None == -1

\* (upper bound in dollars, marginal rate in percent)
FEDERAL_BRACKETS_SINGLE_2025 ==
    << [upper |-> 11925,  rate |-> 10],
       [upper |-> 48475,  rate |-> 12],
       [upper |-> 103350, rate |-> 22],
       [upper |-> 197300, rate |-> 24],
       [upper |-> 250525, rate |-> 32],
       [upper |-> 626350, rate |-> 35],
       [upper |-> None,   rate |-> 37] >>

\* rates in basis points
SS_RATE == 620
SS_WAGE_BASE == 176100
MEDICARE_RATE == 145
MEDICARE_SURCHARGE_RATE == 90
MEDICARE_SURCHARGE_THRESHOLD == 200000

\* breakpoints <<income in dollars, effective rate in basis points>>
STATE_TAX_SCHEDULE ==
    ("Texas"          :> << <<0, 0>> >>) @@
    ("Florida"        :> << <<0, 0>> >>) @@
    ("Nevada"         :> << <<0, 0>> >>) @@
    ("Washington"     :> << <<0, 0>> >>) @@
    ("Wyoming"        :> << <<0, 0>> >>) @@
    ("Illinois"       :> << <<0, 200>>, <<30000, 400>>, <<50000, 460>>,
                            <<75000, 480>>, <<100000, 490>>, <<200000, 490>> >>) @@
    ("Georgia"        :> << <<0, 0>>, <<20000, 250>>, <<40000, 380>>,
                            <<60000, 420>>, <<85000, 440>>, <<150000, 470>>,
                            <<300000, 490>> >>) @@
    ("New York"       :> << <<0, 0>>, <<20000, 300>>, <<40000, 450>>,
                            <<65000, 550>>, <<100000, 600>>, <<150000, 650>>,
                            <<300000, 700>>, <<500000, 800>>, <<1000000, 900>> >>) @@
    ("California"     :> << <<0, 0>>, <<20000, 300>>, <<40000, 520>>,
                            <<65000, 680>>, <<100000, 780>>, <<150000, 850>>,
                            <<300000, 950>>, <<500000, 1050>>, <<1000000, 1200>> >>) @@
    ("Pennsylvania"   :> << <<0, 307>> >>) @@
    ("Ohio"           :> << <<0, 0>>, <<26050, 250>>, <<100000, 330>>,
                            <<115300, 400>> >>) @@
    ("Michigan"       :> << <<0, 425>> >>) @@
    ("North Carolina" :> << <<0, 450>> >>) @@
    ("Virginia"       :> << <<0, 0>>, <<17000, 200>>, <<17001, 300>>,
                            <<17001, 500>>, <<50000, 550>>, <<100000, 570>>,
                            <<200000, 580>> >>) @@
    ("Colorado"       :> << <<0, 440>> >>) @@
    ("Arizona"        :> << <<0, 250>> >>) @@
    ("Massachusetts"  :> << <<0, 500>> >>) @@
    ("Tennessee"      :> << <<0, 0>> >>)

---------------------------------------------------------------------------
(* Arithmetic of the model *)

Max(a, b) == IF a >= b THEN a ELSE b
Min(a, b) == IF a <= b THEN a ELSE b
Abs(a) == IF a >= 0 THEN a ELSE -a

\* <<q, r>> with a * b = q * c + r and 0 <= r < c, for a >= 0, b >= 0, c > 0.
\* The product is never formed: a is taken bit by bit, so that every
\* intermediate value stays below 2 * c + b.
RECURSIVE MulDivQR(_, _, _)
MulDivQR(a, b, c) ==
    IF a = 0 \/ b = 0 THEN <<0, 0>>
    ELSE LET h == MulDivQR(a \div 2, b, c)
             t == 2 * h[2] + (a % 2) * b
         IN  <<2 * h[1] + t \div c, t % c>>

\* The integer nearest to a * b / c (a, b >= 0, c > 0); an exact tie goes up
\* when up holds and down otherwise.
RoundMulDiv(a, b, c, up) ==
    LET qr == MulDivQR(a, b, c)
    IN  IF 2 * qr[2] > c THEN qr[1] + 1
        ELSE IF 2 * qr[2] < c THEN qr[1]
        ELSE IF up THEN qr[1] + 1 ELSE qr[1]

\* round(x, 2) in cents, for x = a * b / c cents and a of either sign.
Round2(a, b, c, up) ==
    IF a >= 0 THEN RoundMulDiv(a, b, c, up) ELSE -RoundMulDiv(-a, b, c, up)

---------------------------------------------------------------------------
(* tax_calculator.py: federal income tax *)

\* a bracket that forgets where the bracket below it ended
BracketIncomeFromZero(upper, taxable, prev_limit) ==
    IF upper = None
    THEN Max(0, taxable)
    ELSE Max(0, Min(taxable, upper))

\* the income of one bracket: the part of taxable in (prev_limit, upper]
BracketIncome(upper, taxable, prev_limit) ==
    IF upper = None
    THEN Max(0, taxable - prev_limit)
    ELSE Max(0, Min(taxable, upper) - prev_limit)

\* the loop over the brackets from bracket i on; tax in cents (dollars times
\* percent), left when the bracket that holds taxable has been added
RECURSIVE FederalLoop(_, _, _, _)
FederalLoop(i, taxable, tax, prev_limit) ==
    IF i > Len(FEDERAL_BRACKETS_SINGLE_2025) THEN tax
    ELSE LET upper == FEDERAL_BRACKETS_SINGLE_2025[i].upper
             rate == FEDERAL_BRACKETS_SINGLE_2025[i].rate
             bracket_income == BracketIncome(upper, taxable, prev_limit)
             tax2 == tax + bracket_income * rate
         IN  IF upper # None /\ taxable <= upper
             THEN tax2
             ELSE FederalLoop(i + 1, taxable, tax2,
                              IF upper # None THEN upper ELSE prev_limit)

\* a cliff schedule: the whole taxable income at the rate of its bracket
compute_federal_tax_cliff(gross_income, up) ==
    LET taxable == Max(0, gross_income - STANDARD_DEDUCTION_SINGLE)
        held == {i \in 1..Len(FEDERAL_BRACKETS_SINGLE_2025) :
                    \/ FEDERAL_BRACKETS_SINGLE_2025[i].upper = None
                    \/ taxable <= FEDERAL_BRACKETS_SINGLE_2025[i].upper}
        i == CHOOSE j \in held : \A k \in held : j <= k
    IN  Round2(taxable * FEDERAL_BRACKETS_SINGLE_2025[i].rate, 1, 1, up)

\* federal income tax in cents
compute_federal_tax(gross_income, up) ==
    LET taxable == Max(0, gross_income - STANDARD_DEDUCTION_SINGLE)
    IN  Round2(FederalLoop(1, taxable, 0, 0), 1, 1, up)

---------------------------------------------------------------------------
(* tax_calculator.py: FICA payroll taxes, every amount in cents *)

\* Social Security without the wage base
SocialSecurityUncapped(gross_income, up) ==
    Round2(gross_income, SS_RATE, 100, up)

\* Social Security: 6.2% of the wages up to the wage base
SocialSecurity(gross_income, up) ==
    LET ss_taxable == Min(gross_income, SS_WAGE_BASE)
    IN  Round2(ss_taxable, SS_RATE, 100, up)

\* Medicare: 1.45% of all wages
MedicareBase(gross_income, up) ==
    Round2(gross_income, MEDICARE_RATE, 100, up)

\* the additional 0.9% on all the wages of an income above the threshold
MedicareSurchargeOnAllWages(gross_income, up) ==
    IF gross_income > MEDICARE_SURCHARGE_THRESHOLD
    THEN Round2(gross_income, MEDICARE_SURCHARGE_RATE, 100, up)
    ELSE 0

\* the additional 0.9% on the wages above the threshold
MedicareSurcharge(gross_income, up) ==
    IF gross_income > MEDICARE_SURCHARGE_THRESHOLD
    THEN Round2(gross_income - MEDICARE_SURCHARGE_THRESHOLD,
                MEDICARE_SURCHARGE_RATE, 100, up)
    ELSE 0

\* a FICA total that leaves the surcharge out
compute_fica_without_surcharge(gross_income, up) ==
    LET social_security == SocialSecurity(gross_income, up)
        medicare_base == MedicareBase(gross_income, up)
        medicare_surcharge == MedicareSurcharge(gross_income, up)
        medicare_total == Round2(medicare_base + medicare_surcharge, 1, 1, up)
    IN  [ social_security    |-> social_security,
          medicare           |-> medicare_total,
          medicare_base      |-> medicare_base,
          medicare_surcharge |-> medicare_surcharge,
          total              |-> Round2(social_security + medicare_base, 1, 1, up) ]

compute_fica(gross_income, up) ==
    LET social_security == SocialSecurity(gross_income, up)
        medicare_base == MedicareBase(gross_income, up)
        medicare_surcharge == MedicareSurcharge(gross_income, up)
        medicare_total == Round2(medicare_base + medicare_surcharge, 1, 1, up)
    IN  [ social_security    |-> social_security,
          medicare           |-> medicare_total,
          medicare_base      |-> medicare_base,
          medicare_surcharge |-> medicare_surcharge,
          total              |-> Round2(social_security + medicare_total, 1, 1, up) ]

---------------------------------------------------------------------------
(* tax_calculator.py: state income tax *)

\* a step schedule: the rate of the lower breakpoint all along the segment
SegmentRateStep(schedule, i, income) ==
    <<schedule[i][2], 1>>

\* the rate of segment i of the schedule at income, as <<numerator,
\* denominator>> in basis points: lo_rate when the segment has no width, else
\* lo_rate + (income - lo_inc) / (hi_inc - lo_inc) * (hi_rate - lo_rate)
SegmentRate(schedule, i, income) ==
    LET lo_inc == schedule[i][1]
        lo_rate == schedule[i][2]
        hi_inc == schedule[i + 1][1]
        hi_rate == schedule[i + 1][2]
    IN  IF hi_inc = lo_inc
        THEN <<lo_rate, 1>>
        ELSE <<lo_rate * (hi_inc - lo_inc) + (income - lo_inc) * (hi_rate - lo_rate),
               hi_inc - lo_inc>>

\* a search over half-open segments lo <= income < hi
RECURSIVE InterpolateFromHalfOpen(_, _, _)
InterpolateFromHalfOpen(schedule, i, income) ==
    IF i > Len(schedule) - 1
    THEN <<schedule[Len(schedule)][2], 1>>
    ELSE IF schedule[i][1] <= income /\ income < schedule[i + 1][1]
         THEN SegmentRate(schedule, i, income)
         ELSE InterpolateFromHalfOpen(schedule, i + 1, income)

\* a search that gives an income above the top breakpoint the rate of the
\* first breakpoint
RECURSIVE InterpolateFromFirstRateAbove(_, _, _)
InterpolateFromFirstRateAbove(schedule, i, income) ==
    IF i > Len(schedule) - 1
    THEN <<schedule[1][2], 1>>
    ELSE IF schedule[i][1] <= income /\ income <= schedule[i + 1][1]
         THEN SegmentRate(schedule, i, income)
         ELSE InterpolateFromFirstRateAbove(schedule, i + 1, income)

\* the search for the surrounding breakpoints from segment i on
RECURSIVE InterpolateFrom(_, _, _)
InterpolateFrom(schedule, i, income) ==
    IF i > Len(schedule) - 1
    THEN <<schedule[Len(schedule)][2], 1>>
    ELSE IF schedule[i][1] <= income /\ income <= schedule[i + 1][1]
         THEN SegmentRate(schedule, i, income)
         ELSE InterpolateFrom(schedule, i + 1, income)

\* a search that needs two breakpoints and gives a lone one the rate 0
interpolate_rate_pairs_only(schedule, income) ==
    IF Len(schedule) = 1
    THEN <<0, 1>>
    ELSE InterpolateFrom(schedule, 1, income)

\* effective state rate <<numerator, denominator>> in basis points
interpolate_rate(schedule, income) ==
    IF Len(schedule) = 1
    THEN <<schedule[1][2], 1>>
    ELSE InterpolateFrom(schedule, 1, income)

\* errors: every one is a ValueError; kind is the error of the specification
\* the message stands for, by the function that raises it
Raise(kind, by) == [type |-> "ValueError", kind |-> kind, raised_by |-> by]
Value(v) == [kind |-> "value", val |-> v]
Error(e) == [kind |-> "error", err |-> e]

\* a state tax that falls back to 0 for a state without a schedule
compute_state_tax_fallback(gross_income, state, up) ==
    IF state \notin DOMAIN STATE_TAX_SCHEDULE
    THEN Value(0)
    ELSE LET schedule == STATE_TAX_SCHEDULE[state]
             effective_rate == interpolate_rate(schedule, gross_income)
         IN  Value(Round2(gross_income, effective_rate[1],
                          100 * effective_rate[2], up))

\* state income tax in cents, or the error raised
compute_state_tax(gross_income, state, up) ==
    IF state \notin DOMAIN STATE_TAX_SCHEDULE
    THEN Error(Raise("UnknownJurisdiction", "compute_state_tax"))
    ELSE LET schedule == STATE_TAX_SCHEDULE[state]
             effective_rate == interpolate_rate(schedule, gross_income)
         IN  Value(Round2(gross_income, effective_rate[1],
                          100 * effective_rate[2], up))

\* a ratio amount / gross_income as <<numerator, denominator>> of cents per
\* cent, 0 when gross_income is not positive
RateOf(amount, gross_income) ==
    IF gross_income > 0 THEN <<amount, 100 * gross_income>> ELSE <<0, 1>>

compute_all_taxes(gross_income, state, up) ==
    LET federal == compute_federal_tax(gross_income, up)
        fica == compute_fica(gross_income, up)
        state_tax == compute_state_tax(gross_income, state, up)
    IN  IF state_tax.kind = "error"
        THEN state_tax
        ELSE LET total == Round2(federal + fica.total + state_tax.val, 1, 1, up)
             IN  Value([ federal                |-> federal,
                         fica                   |-> fica,
                         state                  |-> state_tax.val,
                         total                  |-> total,
                         effective_total_rate   |-> RateOf(total, gross_income),
                         effective_federal_rate |-> RateOf(federal, gross_income),
                         effective_state_rate   |-> RateOf(state_tax.val, gross_income) ])

---------------------------------------------------------------------------
(* constants.py: expenditure calibration *)

\* a map that leaves Texas, a state of the tax schedule, without a region
STATE_TO_REGION_without_Texas ==
    [s \in {"Connecticut", "Maine", "Massachusetts", "New Hampshire",
            "Rhode Island", "Vermont", "New Jersey", "New York",
            "Pennsylvania"} |-> "Northeast"] @@
    [s \in {"Illinois", "Indiana", "Michigan", "Ohio", "Wisconsin", "Iowa",
            "Kansas", "Minnesota", "Missouri", "Nebraska", "North Dakota",
            "South Dakota"} |-> "Midwest"] @@
    [s \in {"Delaware", "Florida", "Georgia", "Maryland", "North Carolina",
            "South Carolina", "Virginia", "West Virginia",
            "District of Columbia", "Alabama", "Kentucky", "Mississippi",
            "Tennessee", "Arkansas", "Louisiana", "Oklahoma"} |-> "South"] @@
    [s \in {"Arizona", "Colorado", "Idaho", "Montana", "Nevada", "New Mexico",
            "Utah", "Wyoming", "Alaska", "California", "Hawaii", "Oregon",
            "Washington"} |-> "West"]

STATE_TO_REGION ==
    [s \in {"Connecticut", "Maine", "Massachusetts", "New Hampshire",
            "Rhode Island", "Vermont", "New Jersey", "New York",
            "Pennsylvania"} |-> "Northeast"] @@
    [s \in {"Illinois", "Indiana", "Michigan", "Ohio", "Wisconsin", "Iowa",
            "Kansas", "Minnesota", "Missouri", "Nebraska", "North Dakota",
            "South Dakota"} |-> "Midwest"] @@
    [s \in {"Delaware", "Florida", "Georgia", "Maryland", "North Carolina",
            "South Carolina", "Virginia", "West Virginia",
            "District of Columbia", "Alabama", "Kentucky", "Mississippi",
            "Tennessee", "Arkansas", "Louisiana", "Oklahoma", "Texas"} |-> "South"] @@
    [s \in {"Arizona", "Colorado", "Idaho", "Montana", "Nevada", "New Mexico",
            "Utah", "Wyoming", "Alaska", "California", "Hawaii", "Oregon",
            "Washington"} |-> "West"]

\* alpha, in percent
ESSENTIAL_FRACTIONS ==
    ("Food" :> 70) @@ ("Housing" :> 100) @@
    ("Utilities, fuel, public services" :> 100) @@
    ("Household operations" :> 50) @@ ("Housekeeping supplies" :> 70) @@
    ("Household furnishings and equipement" :> 20) @@
    ("Apparel and services" :> 60) @@ ("Transportation" :> 75) @@
    ("Healthcare" :> 100) @@ ("Entertainment" :> 0) @@
    ("Personal care" :> 80) @@ ("Education" :> 50) @@
    ("Miscellaneous" :> 0) @@ ("Personal insurance" :> 10)

\* beta, in percent
INCOME_ELASTICITY ==
    ("Food" :> 55) @@ ("Housing" :> 70) @@
    ("Utilities, fuel, public services" :> 60) @@
    ("Household operations" :> 90) @@ ("Housekeeping supplies" :> 75) @@
    ("Household furnishings and equipement" :> 110) @@
    ("Apparel and services" :> 85) @@ ("Transportation" :> 80) @@
    ("Healthcare" :> 65) @@ ("Entertainment" :> 120) @@
    ("Personal care" :> 75) @@ ("Education" :> 90) @@
    ("Miscellaneous" :> 100) @@ ("Personal insurance" :> 95)

AVG_INCOME_BY_AGE ==
    ("Under 25" :> 42000) @@ ("25-34" :> 62000) @@ ("35-44" :> 83000) @@
    ("45-54" :> 88000) @@ ("55-64" :> 80000) @@ ("65-74" :> 58000) @@
    ("75 and older" :> 44000)

---------------------------------------------------------------------------
(* expenditure_model.py *)

AGE_BREAKS ==
    << <<0, 24, "Under 25">>, <<25, 34, "25-34">>, <<35, 44, "35-44">>,
       <<45, 54, "45-54">>, <<55, 64, "55-64">>, <<65, 74, "65-74">>,
       <<75, 999, "75 and older">> >>

\* a search over bands lo <= age < hi
RECURSIVE AgeGroupFromHalfOpen(_, _)
AgeGroupFromHalfOpen(i, age) ==
    IF i > Len(AGE_BREAKS)
    THEN Error(Raise("OutOfRange", "get_age_group"))
    ELSE IF AGE_BREAKS[i][1] <= age /\ age < AGE_BREAKS[i][2]
         THEN Value(AGE_BREAKS[i][3])
         ELSE AgeGroupFromHalfOpen(i + 1, age)

RECURSIVE AgeGroupFrom(_, _)
AgeGroupFrom(i, age) ==
    IF i > Len(AGE_BREAKS)
    THEN Error(Raise("OutOfRange", "get_age_group"))
    ELSE IF AGE_BREAKS[i][1] <= age /\ age <= AGE_BREAKS[i][2]
         THEN Value(AGE_BREAKS[i][3])
         ELSE AgeGroupFrom(i + 1, age)

get_age_group(age) == AgeGroupFrom(1, age)

\* a resolver that puts a state it does not know in the South
get_region_for_state_or_south(state) ==
    IF state \notin DOMAIN STATE_TO_REGION
    THEN Value("South")
    ELSE Value(STATE_TO_REGION[state])

get_region_for_state(state) ==
    IF state \notin DOMAIN STATE_TO_REGION
    THEN Error(Raise("UnknownJurisdiction", "get_region_for_state"))
    ELSE Value(STATE_TO_REGION[state])

\* dict.get(key, default)
Get(d, key, default) == IF key \in DOMAIN d THEN d[key] ELSE default

(* Amounts of the expenditure engine are floats that round(x, 2) is applied  *)
(* to only at the totals.  The model keeps them in units of 1/10000 dollar   *)
(* (PerDollar units to the dollar), and factors (ratio ** beta) in units of  *)
(* 1/10000 (One is the factor 1.0); each product is rounded to the unit.     *)
PerDollar == 100 * 100
One == 100 * 100

RECURSIVE GCD(_, _)
GCD(a, b) == IF b = 0 THEN a ELSE GCD(b, a % b)

\* the quotient a / b of two positive numbers as a value: <<numerator,
\* denominator>> in lowest terms
Quotient(a, b) == LET g == GCD(a, b) IN <<a \div g, b \div g>>

\* the largest k with 2^k <= n, for n >= 1
RECURSIVE Log2Floor(_)
Log2Floor(n) == IF n < 2 THEN 0 ELSE 1 + Log2Floor(n \div 2)

\* ln(n) for an integer n >= 1, in units of 1/10000: n = 2^k * m with
\* 1 <= m < 2, ln(m) = 2 * atanh(z) for z = (m - 1) / (m + 1), by its series
Ln(n) ==
    LET k == Log2Floor(n)
        z == MulDivQR(n - 2^k, One, n + 2^k)[1]
        z2 == (z * z) \div One
        s4 == One \div 9
        s3 == One \div 7 + (z2 * s4) \div One
        s2 == One \div 5 + (z2 * s3) \div One
        s1 == One \div 3 + (z2 * s2) \div One
        s0 == One + (z2 * s1) \div One
    IN  k * 6931 + (2 * z * s0) \div One

\* e^t for t in units of 1/10000, in units of 1/10000: t = j * ln 2 + r with
\* 0 <= r < ln 2, e^r by its series
Exp(t) ==
    LET j == t \div 6931
        r == t % 6931
        e5 == One + r \div 6
        e4 == One + (r * e5) \div (5 * One)
        e3 == One + (r * e4) \div (4 * One)
        e2 == One + (r * e3) \div (3 * One)
        e1 == One + (r * e2) \div (2 * One)
        e0 == One + (r * e1) \div One
    IN  IF j >= 0 THEN e0 * 2^j ELSE e0 \div 2^(-j)

\* ratio ** beta, for ratio = <<numerator, denominator>> > 0 and beta in
\* percent, in units of 1/10000: e^(beta * ln(ratio))
Pow(ratio, beta) ==
    Exp((beta * (Ln(ratio[1]) - Ln(ratio[2]))) \div 100)

\* the elasticity taken as a factor instead of an exponent
scale_expenditure_beta_factor(bls_amount, salary, avg_income, beta, up) ==
    IF avg_income <= 0 \/ salary <= 0
    THEN bls_amount
    ELSE LET ratio == Quotient(salary, avg_income)
         IN  RoundMulDiv(bls_amount, ratio[1] * beta, ratio[2] * 100, up)

\* a guard that gives 0 in place of the baseline when an income is not
\* positive
scale_expenditure_zero_when_degenerate(bls_amount, salary, avg_income, beta, up) ==
    IF avg_income <= 0 \/ salary <= 0
    THEN 0
    ELSE LET ratio == Quotient(salary, avg_income)
         IN  RoundMulDiv(bls_amount, Pow(ratio, beta), One, up)

\* a guard that lets a salary of 0 through: the ratio is 0 and 0 ** beta is
\* 0 for a positive beta, 1 for beta = 0
scale_expenditure_strict_guard(bls_amount, salary, avg_income, beta, up) ==
    IF avg_income <= 0 \/ salary < 0
    THEN bls_amount
    ELSE IF salary = 0
    THEN IF beta = 0 THEN bls_amount ELSE 0
    ELSE LET ratio == Quotient(salary, avg_income)
         IN  RoundMulDiv(bls_amount, Pow(ratio, beta), One, up)

\* the expenditure scaled to the salary, in units of 1/10000 dollar
scale_expenditure(bls_amount, salary, avg_income, beta, up) ==
    IF avg_income <= 0 \/ salary <= 0
    THEN bls_amount
    ELSE LET ratio == Quotient(salary, avg_income)
         IN  RoundMulDiv(bls_amount, Pow(ratio, beta), One, up)

\* the sum of f over the first n categories, in the order of the list
RECURSIVE SumOver(_, _, _)
SumOver(f, categories, n) ==
    IF n = 0 THEN 0 ELSE SumOver(f, categories, n - 1) + f[categories[n]]

\* the weights of the two tables taken one for the other
WAgeSwapped(use_region_blend) == IF use_region_blend THEN 4 ELSE 10

\* a region weight that the switch does not turn off
WRegIgnoringSwitch(use_region_blend) == 4

\* blend weights in tenths
WAge(use_region_blend) == IF use_region_blend THEN 6 ELSE 10
WReg(use_region_blend) == IF use_region_blend THEN 4 ELSE 0

\* a breakdown whose essential amount is a fraction of the baseline instead
\* of the scaled amount
CategoryEntryOfBaseline(cat, age_data, region_data, salary, avg_income, use_region_blend, up) ==
    LET age_bls == Get(age_data, cat, 0)
        reg_bls == Get(region_data, cat, 0)
        bls_base == (WAge(use_region_blend) * age_bls
                     + WReg(use_region_blend) * reg_bls) * (PerDollar \div 10)
        beta == Get(INCOME_ELASTICITY, cat, 100)
        scaled == scale_expenditure(bls_base, salary, avg_income, beta, up)
        alpha == Get(ESSENTIAL_FRACTIONS, cat, 0)
        essential == RoundMulDiv(bls_base, alpha, 100, up)
    IN  [ bls_age     |-> age_bls,
          bls_region  |-> reg_bls,
          bls_blended |-> bls_base,
          scaled      |-> scaled,
          alpha       |-> alpha,
          beta        |-> beta,
          essential   |-> essential ]

\* one category of the breakdown
CategoryEntry(cat, age_data, region_data, salary, avg_income, use_region_blend, up) ==
    LET age_bls == Get(age_data, cat, 0)
        reg_bls == Get(region_data, cat, 0)
        bls_base == (WAge(use_region_blend) * age_bls
                     + WReg(use_region_blend) * reg_bls) * (PerDollar \div 10)
        beta == Get(INCOME_ELASTICITY, cat, 100)
        scaled == scale_expenditure(bls_base, salary, avg_income, beta, up)
        alpha == Get(ESSENTIAL_FRACTIONS, cat, 0)
        essential == RoundMulDiv(scaled, alpha, 100, up)
    IN  [ bls_age     |-> age_bls,
          bls_region  |-> reg_bls,
          bls_blended |-> bls_base,
          scaled      |-> scaled,
          alpha       |-> alpha,
          beta        |-> beta,
          essential   |-> essential ]

\* the essential expenses: totals in cents, the breakdown in units of
\* 1/10000 dollar, or the error raised
compute_essential_expenses(salary, age, state, data, use_region_blend, up) ==
    LET age_group == get_age_group(age)
        region == get_region_for_state(state)
    IN  IF age_group.kind = "error" THEN age_group
        ELSE IF region.kind = "error" THEN region
        ELSE
        LET avg_income == Get(data.mean_income_by_age, age_group.val,
                              AVG_INCOME_BY_AGE[age_group.val])
            age_data == data.by_age[age_group.val]
            region_data == data.by_region[region.val]
            categories == data.categories
            by_category ==
                [cat \in {categories[i] : i \in 1..Len(categories)} |->
                    CategoryEntry(cat, age_data, region_data, salary,
                                  avg_income, use_region_blend, up)]
            total_essential ==
                SumOver([cat \in DOMAIN by_category |-> by_category[cat].essential],
                        categories, Len(categories))
            total_all ==
                SumOver([cat \in DOMAIN by_category |-> by_category[cat].scaled],
                        categories, Len(categories))
        IN  Value([ total_essential |-> Round2(total_essential, 100, PerDollar, up),
                    total_all       |-> Round2(total_all, 100, PerDollar, up),
                    by_category     |-> by_category,
                    age_group       |-> age_group.val,
                    region          |-> region.val,
                    avg_income_for_age_group |-> avg_income,
                    income_ratio    |-> IF avg_income > 0
                                        THEN <<salary, avg_income>>
                                        ELSE <<1, 1>> ])

---------------------------------------------------------------------------
(* disposable_income.py *)

\* a validation of the income alone
ValidateIncomeOnly(gross_income, age) ==
    IF gross_income < 0
    THEN Error(Raise("InvalidInput", "compute_disposable_income"))
    ELSE Value("ok")

\* lines 95-98: the error of an invalid argument, or no error
ValidateInput(gross_income, age) ==
    IF gross_income < 0
    THEN Error(Raise("InvalidInput", "compute_disposable_income"))
    ELSE IF ~(0 <= age /\ age <= 120)
         THEN Error(Raise("InvalidInput", "compute_disposable_income"))
         ELSE Value("ok")

\* a disposable income that is never negative
DisposableClamped(gross_income, total_tax, total_essential) ==
    Max(0, 100 * gross_income - total_tax - total_essential)

\* disposable = gross_income - total_tax - total_essential, in cents
Disposable(gross_income, total_tax, total_essential) ==
    100 * gross_income - total_tax - total_essential

\* a fraction of at least one dollar of income, whatever the income
DiFractionOfAtLeastOne(disposable, gross_income, up) ==
    Round2(disposable, 100, Max(gross_income, 1), up)

\* di_fraction, rounded to 4 decimals, in units of 1/10000
DiFraction(disposable, gross_income, up) ==
    IF gross_income > 0 THEN Round2(disposable, 100, gross_income, up) ELSE 0

\* a result whose total tax runs on from the result the caller kept, as a
\* total held outside the function would
AssembleResultRunningTotal(c, t, e, up) ==
    LET total_tax == t.total + (IF prev.ret.kind = "value"
                                THEN prev.ret.val.total_tax ELSE 0)
        total_essential == e.total_essential
        disposable == Disposable(c.gross_income, total_tax, total_essential)
    IN  [ gross_income       |-> c.gross_income,
          age                |-> c.age,
          state              |-> c.state,
          taxes              |-> [ federal         |-> t.federal,
                                   social_security |-> t.fica.social_security,
                                   medicare        |-> t.fica.medicare,
                                   fica_total      |-> t.fica.total,
                                   state           |-> t.state,
                                   total           |-> total_tax ],
          total_tax          |-> total_tax,
          effective_tax_rate |-> t.effective_total_rate,
          expenses           |-> e,
          total_essential    |-> total_essential,
          total_all_expenses |-> e.total_all,
          disposable_income  |-> Round2(disposable, 1, 1, up),
          di_fraction        |-> DiFraction(disposable, c.gross_income, up),
          age_group          |-> e.age_group,
          region             |-> e.region,
          income_ratio       |-> e.income_ratio ]

\* lines 112-161: the result assembled from the two engines' results
AssembleResult(c, t, e, up) ==
    LET total_tax == t.total
        total_essential == e.total_essential
        disposable == Disposable(c.gross_income, total_tax, total_essential)
    IN  [ gross_income       |-> c.gross_income,
          age                |-> c.age,
          state              |-> c.state,
          taxes              |-> [ federal         |-> t.federal,
                                   social_security |-> t.fica.social_security,
                                   medicare        |-> t.fica.medicare,
                                   fica_total      |-> t.fica.total,
                                   state           |-> t.state,
                                   total           |-> total_tax ],
          total_tax          |-> total_tax,
          effective_tax_rate |-> t.effective_total_rate,
          expenses           |-> e,
          total_essential    |-> total_essential,
          total_all_expenses |-> e.total_all,
          disposable_income  |-> Round2(disposable, 1, 1, up),
          di_fraction        |-> DiFraction(disposable, c.gross_income, up),
          age_group          |-> e.age_group,
          region             |-> e.region,
          income_ratio       |-> e.income_ratio ]

---------------------------------------------------------------------------
(* The expenditure tables of the model (the loader's output, an input of the  *)
(* core).  Odd tables are complete; even tables lack the mean income of       *)
(* 'Under 25', hold a mean income of 0 for '75 and older', list a category    *)
(* the region data lack (Education) and one no table knows (Pets).            *)

AgeLabels == {AGE_BREAKS[i][3] : i \in 1..Len(AGE_BREAKS)}
AgeIndex(label) == CHOOSE i \in 1..Len(AGE_BREAKS) : AGE_BREAKS[i][3] = label
Regions == {"Northeast", "Midwest", "South", "West"}
RegionIndex(r) ==
    CASE r = "Northeast" -> 1 [] r = "Midwest" -> 2 [] r = "South" -> 3 [] r = "West" -> 4

ExpTable(k) ==
    LET complete == (k % 2 = 1)
        ageBase == ("Food" :> 7215) @@ ("Housing" :> 16853) @@
                   ("Entertainment" :> 1500) @@ ("Healthcare" :> 2100) @@
                   ("Education" :> 1200)
        regBase == ("Food" :> 11372) @@ ("Housing" :> 29469) @@
                   ("Entertainment" :> 3600) @@ ("Healthcare" :> 6100)
        ageCats == IF complete THEN {"Food", "Housing", "Entertainment"}
                   ELSE {"Food", "Healthcare", "Education"}
        regCats == IF complete THEN {"Food", "Housing", "Entertainment"}
                   ELSE {"Food", "Healthcare"}
    IN  [ by_age |-> [ag \in AgeLabels |->
                        [cat \in ageCats |-> ageBase[cat] + 500 * (AgeIndex(ag) - 1) + 100 * k]],
          by_region |-> [r \in Regions |->
                        [cat \in regCats |-> regBase[cat] + 300 * RegionIndex(r) + 100 * k]],
          mean_income_by_age |->
              [ag \in (IF complete THEN AgeLabels ELSE AgeLabels \ {"Under 25"}) |->
                  IF ~complete /\ ag = "75 and older" THEN 0
                  ELSE 48514 + 9000 * (AgeIndex(ag) - 1) + 1000 * k],
          categories |-> IF complete THEN <<"Food", "Housing", "Entertainment">>
                         ELSE <<"Food", "Healthcare", "Education", "Pets">> ]

Tables == {ExpTable(k) : k \in 1..NumTables}

---------------------------------------------------------------------------
(* The arguments the caller draws *)

Near(S) == {t + d : t \in S, d \in (-MaxDelta)..MaxDelta} \cap Nat
Grid == {k * GridStep : k \in 0..MaxGrid}
\* the incomes of validate_tax_module
KnownIncomes == {60000, 65000, 100000, 250000}

FederalThresholds ==
    {STANDARD_DEDUCTION_SINGLE} \cup
    {STANDARD_DEDUCTION_SINGLE + FEDERAL_BRACKETS_SINGLE_2025[i].upper :
        i \in 1..(Len(FEDERAL_BRACKETS_SINGLE_2025) - 1)}
FicaThresholds == {SS_WAGE_BASE, MEDICARE_SURCHARGE_THRESHOLD}
ScheduleThresholds(state) ==
    {STATE_TAX_SCHEDULE[state][i][1] : i \in 1..Len(STATE_TAX_SCHEDULE[state])}

FederalIncomes == Near(FederalThresholds) \cup Grid \cup KnownIncomes
\* the small incomes hold exact ties of the rounding to cents
FicaIncomes == Near(FicaThresholds) \cup Grid \cup KnownIncomes \cup 0..(10 * MaxDelta)
\* Oregon has a region and no schedule; Atlantis has neither
UnknownStates == {"Oregon", "Atlantis"}
StateIncomes(state) ==
    IF state \in DOMAIN STATE_TAX_SCHEDULE
    THEN Near(ScheduleThresholds(state)) \cup Grid \cup KnownIncomes
    ELSE KnownIncomes
AllTaxIncomes == Near(FicaThresholds) \cup KnownIncomes \cup {0, 30, 17001, 1200000}
DiIncomes == {-50000, -1, 0, 1, 30, 28000, 49514, 60000, 250000}
DiAges == (Near({0, 120}) \cup {-1, 121}) \cup {23, 30, 67, 75}
DiStates == {"Texas", "California", "Virginia"} \cup UnknownStates
\* ages around both ends of every band, and the ages of
\* validate_expenditure_module
AgeGroupAges ==
    {AGE_BREAKS[i][j] + d : i \in 1..Len(AGE_BREAKS), j \in 1..2,
                            d \in (-MaxDelta)..MaxDelta} \cup {23, 30, 200}
RegionStates ==
    DOMAIN STATE_TO_REGION \cup {"Atlantis", "california", "Puerto Rico", ""}
\* baselines in units of 1/10000 dollar, incomes in dollars, elasticities in
\* percent
ScaleAmounts == {0, 1, 7215 * PerDollar}
ScaleIncomes == {-1, 0, 1, 30, 28000, 49514, 60000, 250000}
ScaleBetas == {0, 55, 70, 100, 150}
\* the reference incomes of a table: the mean income of every age group, the
\* fallback where the table has none
ReferenceIncomes(data) ==
    {Get(data.mean_income_by_age, ag, AVG_INCOME_BY_AGE[ag]) : ag \in AgeLabels}
EssentialIncomes == {-1, 0, 1, 30, 28000, 60000, 250000}
EssentialAges == {-1, 23, 30, 67, 75, 200, 1000}
EssentialStates ==
    {"Texas", "California", "New York", "Illinois", "Oregon", "Atlantis"}
\* the arguments of a caller that calls again and again
AgainIncomes == {-1, 0, 60000}
AgainAges == {30, 121}
AgainStates == {"California", "Oregon"}

---------------------------------------------------------------------------
(* The caller *)

NoCall == [fn |-> "none"]
NoRet == [kind |-> "none"]
NoLocal == [kind |-> "unset"]
NoPrev == [call |-> NoCall, ret |-> NoRet]
\* a concurrent caller that is in no call
NoThread ==
    [pc |-> "idle", call |-> NoCall, ret |-> NoRet, taxes |-> NoLocal,
     exp_result |-> NoLocal]
Callers == 1..NumCallers

Init ==
    /\ tieUp \in BOOLEAN
    /\ exp_data \in Tables
    /\ pc = "idle"
    /\ call = NoCall
    /\ ret = NoRet
    /\ log = <<>>
    /\ taxes = NoLocal
    /\ exp_result = NoLocal
    /\ prev = NoPrev
    /\ threads = [t \in Callers |-> NoThread]

\* a call of a function of the engines that the model takes in one step
Direct(c, outcome) ==
    /\ pc = "idle"
    /\ call' = c
    /\ ret' = outcome
    /\ pc' = IF outcome.kind = "error" THEN "raised" ELSE "returned"
    /\ log' = <<c.fn>>
    /\ UNCHANGED <<tieUp, exp_data, taxes, exp_result, prev, threads>>

CallFederalTax ==
    \E g \in FederalIncomes :
        Direct([fn |-> "compute_federal_tax", gross_income |-> g],
               Value(compute_federal_tax(g, tieUp)))

CallFica ==
    \E g \in FicaIncomes :
        Direct([fn |-> "compute_fica", gross_income |-> g],
               Value(compute_fica(g, tieUp)))

CallStateTax ==
    \E s \in DOMAIN STATE_TAX_SCHEDULE \cup UnknownStates :
        \E g \in StateIncomes(s) :
            Direct([fn |-> "compute_state_tax", gross_income |-> g, state |-> s],
                   compute_state_tax(g, s, tieUp))

CallAllTaxes ==
    \E s \in DOMAIN STATE_TAX_SCHEDULE \cup UnknownStates :
        \E g \in AllTaxIncomes :
            Direct([fn |-> "compute_all_taxes", gross_income |-> g, state |-> s],
                   compute_all_taxes(g, s, tieUp))

CallAgeGroup ==
    \E a \in AgeGroupAges :
        Direct([fn |-> "get_age_group", age |-> a], get_age_group(a))

CallRegionForState ==
    \E s \in RegionStates :
        Direct([fn |-> "get_region_for_state", state |-> s],
               get_region_for_state(s))

CallScaleExpenditure ==
    \E b \in ScaleAmounts, g \in ScaleIncomes, avg \in ScaleIncomes,
       beta \in ScaleBetas :
        /\ (g > 0 /\ avg > 0) => (g <= MaxRatio * avg /\ avg <= MaxRatio * g)
        /\ Direct([fn |-> "_scale_expenditure", bls_amount |-> b, salary |-> g,
                   avg_income |-> avg, beta |-> beta],
                  Value(scale_expenditure(b, g, avg, beta, tieUp)))

CallEssentialExpenses ==
    \E g \in EssentialIncomes \cup ReferenceIncomes(exp_data),
       a \in EssentialAges, s \in EssentialStates, b \in BOOLEAN :
        Direct([fn |-> "compute_essential_expenses", salary |-> g, age |-> a,
                state |-> s, use_region_blend |-> b],
               compute_essential_expenses(g, a, s, exp_data, b, tieUp))

\* compute_disposable_income is entered: lines 95-98
CallDisposableIncome ==
    /\ pc = "idle"
    /\ \E g \in DiIncomes, a \in DiAges, s \in DiStates, b \in BOOLEAN :
        LET v == ValidateInput(g, a)
        IN  /\ call' = [fn |-> "compute_disposable_income", gross_income |-> g,
                        age |-> a, state |-> s, use_region_blend |-> b]
            /\ log' = <<"compute_disposable_income">>
            /\ IF v.kind = "error"
               THEN pc' = "raised" /\ ret' = v
               ELSE pc' = "taxes" /\ ret' = NoRet
    /\ UNCHANGED <<tieUp, exp_data, taxes, exp_result, prev, threads>>

\* line 101: the tax engine; an error it raises is not caught
DiTaxes ==
    /\ pc = "taxes"
    /\ LET t == compute_all_taxes(call.gross_income, call.state, tieUp)
       IN  /\ log' = Append(log, "compute_all_taxes")
           /\ IF t.kind = "error"
              THEN pc' = "raised" /\ ret' = t /\ taxes' = taxes
              ELSE pc' = "expenses" /\ ret' = ret /\ taxes' = t
    /\ UNCHANGED <<tieUp, exp_data, call, exp_result, prev, threads>>

\* an expenditure engine that writes the fallback income it used into the
\* caller's table
DiExpensesFillingTable ==
    /\ pc = "expenses"
    /\ LET e == compute_essential_expenses(call.gross_income, call.age, call.state,
                                           exp_data, call.use_region_blend, tieUp)
       IN  /\ log' = Append(log, "compute_essential_expenses")
           /\ IF e.kind = "error"
              THEN pc' = "raised" /\ ret' = e /\ exp_result' = exp_result
                   /\ exp_data' = exp_data
              ELSE pc' = "assemble" /\ ret' = ret /\ exp_result' = e
                   /\ exp_data' =
                          [exp_data EXCEPT !.mean_income_by_age =
                              [ag \in DOMAIN @ \cup {e.val.age_group} |->
                                  IF ag \in DOMAIN @ THEN @[ag]
                                  ELSE e.val.avg_income_for_age_group]]
    /\ UNCHANGED <<tieUp, call, taxes, prev, threads>>

\* lines 104-110: the expenditure engine; an error it raises is not caught
DiExpenses ==
    /\ pc = "expenses"
    /\ LET e == compute_essential_expenses(call.gross_income, call.age, call.state,
                                           exp_data, call.use_region_blend, tieUp)
       IN  /\ log' = Append(log, "compute_essential_expenses")
           /\ IF e.kind = "error"
              THEN pc' = "raised" /\ ret' = e /\ exp_result' = exp_result
              ELSE pc' = "assemble" /\ ret' = ret /\ exp_result' = e
    /\ UNCHANGED <<tieUp, exp_data, call, taxes, prev, threads>>

\* lines 112-161: the result is assembled and returned
DiReturn ==
    /\ pc = "assemble"
    /\ ret' = Value(AssembleResult(call, taxes.val, exp_result.val, tieUp))
    /\ pc' = "returned"
    /\ UNCHANGED <<tieUp, exp_data, call, log, taxes, exp_result, prev, threads>>

\* the caller takes the outcome and is free to call again
Resume ==
    /\ pc \in {"returned", "raised"}
    /\ pc' = "idle"
    /\ call' = NoCall
    /\ ret' = NoRet
    /\ log' = <<>>
    /\ taxes' = NoLocal
    /\ exp_result' = NoLocal
    /\ UNCHANGED <<tieUp, exp_data, prev, threads>>

Next ==
    \/ CallFederalTax
    \/ CallFica
    \/ CallStateTax
    \/ CallAllTaxes
    \/ CallAgeGroup
    \/ CallRegionForState
    \/ CallScaleExpenditure
    \/ CallEssentialExpenses
    \/ CallDisposableIncome
    \/ DiTaxes
    \/ DiExpenses
    \/ DiReturn
    \/ Resume

Spec == Init /\ [][Next]_vars

---------------------------------------------------------------------------
(* A caller that keeps results (run_all_profiles: results.append(result))     *)
(* and calls compute_disposable_income again, with the same or with other     *)
(* arguments.                                                                 *)

CallDisposableIncomeAgain ==
    /\ pc = "idle"
    /\ \E g \in AgainIncomes, a \in AgainAges, s \in AgainStates, b \in BOOLEAN :
        LET v == ValidateInput(g, a)
        IN  /\ call' = [fn |-> "compute_disposable_income", gross_income |-> g,
                        age |-> a, state |-> s, use_region_blend |-> b]
            /\ log' = <<"compute_disposable_income">>
            /\ IF v.kind = "error"
               THEN pc' = "raised" /\ ret' = v
               ELSE pc' = "taxes" /\ ret' = NoRet
    /\ UNCHANGED <<tieUp, exp_data, taxes, exp_result, prev, threads>>

\* the caller keeps the outcome in place of the one it kept before
Keep ==
    /\ pc \in {"returned", "raised"}
    /\ prev' = [call |-> call, ret |-> ret]
    /\ pc' = "idle"
    /\ call' = NoCall
    /\ ret' = NoRet
    /\ log' = <<>>
    /\ taxes' = NoLocal
    /\ exp_result' = NoLocal
    /\ UNCHANGED <<tieUp, exp_data, threads>>

NextAgain ==
    \/ CallDisposableIncomeAgain
    \/ DiTaxes
    \/ DiExpenses
    \/ DiReturn
    \/ Keep
    \/ Resume

SpecAgain == Init /\ [][NextAgain]_vars

---------------------------------------------------------------------------
(* A caller that calls compute_disposable_income for every state of either   *)
(* table of constants.py, and for a state of neither.                        *)

EveryState == DOMAIN STATE_TAX_SCHEDULE \cup DOMAIN STATE_TO_REGION \cup {"Atlantis"}
EveryStateIncomes == {0, 60000}
\* 75 is in the band whose mean income one of the tables gives as 0
EveryStateAges == {30, 75}

CallDisposableIncomeEveryState ==
    /\ pc = "idle"
    /\ \E g \in EveryStateIncomes, a \in EveryStateAges, s \in EveryState,
          b \in BOOLEAN :
        LET v == ValidateInput(g, a)
        IN  /\ call' = [fn |-> "compute_disposable_income", gross_income |-> g,
                        age |-> a, state |-> s, use_region_blend |-> b]
            /\ log' = <<"compute_disposable_income">>
            /\ IF v.kind = "error"
               THEN pc' = "raised" /\ ret' = v
               ELSE pc' = "taxes" /\ ret' = NoRet
    /\ UNCHANGED <<tieUp, exp_data, taxes, exp_result, prev, threads>>

NextEveryState ==
    \/ CallDisposableIncomeEveryState
    \/ DiTaxes
    \/ DiExpenses
    \/ DiReturn
    \/ Resume

SpecEveryState == Init /\ [][NextEveryState]_vars

---------------------------------------------------------------------------
(* Callers that run compute_disposable_income at the same time. The calls   *)
(* share the tables (exp_data and the constants) and nothing else: taxes and *)
(* exp_result are locals of each call. A step of a thread is one statement   *)
(* of lines 95-161; the steps of the threads interleave in any order.        *)

ConcurrentIncomes == {-1, 0, 60000}
ConcurrentAges == {30}
ConcurrentStates == {"California", "Oregon"}
\* use_region_blend is left at its default
ConcurrentBlends == {TRUE}

\* The values of the engines and of the assembly for the arguments the
\* threads draw, as sets of <<arguments, value>>. The three are functions of
\* their arguments; a thread that evaluates one gets the value found here.
\* They are tabulated because the enabling condition of a fair step is
\* evaluated without keeping intermediate values.
LookUp(table, key) == (CHOOSE r \in table : r[1] = key)[2]

ConcurrentCalls ==
    [fn : {"compute_disposable_income"}, gross_income : ConcurrentIncomes \cap Nat,
     age : ConcurrentAges, state : ConcurrentStates,
     use_region_blend : ConcurrentBlends]
ConcurrentTaxes ==
    {<< <<c.gross_income, c.state, up>>,
        compute_all_taxes(c.gross_income, c.state, up) >> :
        c \in ConcurrentCalls, up \in BOOLEAN}
ConcurrentExpenses ==
    {<< <<c, data, up>>,
        compute_essential_expenses(c.gross_income, c.age, c.state, data,
                                   c.use_region_blend, up) >> :
        c \in ConcurrentCalls, data \in Tables, up \in BOOLEAN}
ConcurrentResults ==
    {<< <<c, t[2].val, e[2].val, up>>, AssembleResult(c, t[2].val, e[2].val, up) >> :
        c \in ConcurrentCalls,
        t \in {r \in ConcurrentTaxes : r[2].kind = "value"},
        e \in {r \in ConcurrentExpenses : r[2].kind = "value"},
        up \in BOOLEAN}

\* compute_disposable_income run from entry to exit with nothing in between
RunAlone(c, data, up) ==
    LET v == ValidateInput(c.gross_income, c.age)
        t == compute_all_taxes(c.gross_income, c.state, up)
        e == compute_essential_expenses(c.gross_income, c.age, c.state, data,
                                        c.use_region_blend, up)
    IN  IF v.kind = "error" THEN v
        ELSE IF t.kind = "error" THEN t
        ELSE IF e.kind = "error" THEN e
        ELSE Value(AssembleResult(c, t.val, e.val, up))

\* thread t enters compute_disposable_income: lines 95-98
ThreadCall(t) ==
    /\ threads[t].pc = "idle"
    /\ \E g \in ConcurrentIncomes, a \in ConcurrentAges, s \in ConcurrentStates,
          b \in ConcurrentBlends :
        LET v == ValidateInput(g, a)
            c == [fn |-> "compute_disposable_income", gross_income |-> g,
                  age |-> a, state |-> s, use_region_blend |-> b]
        IN  threads' = [threads EXCEPT ![t] =
                [pc |-> IF v.kind = "error" THEN "raised" ELSE "taxes",
                 call |-> c,
                 ret |-> IF v.kind = "error" THEN v ELSE NoRet,
                 taxes |-> NoLocal,
                 exp_result |-> NoLocal]]
    /\ UNCHANGED <<tieUp, pc, call, ret, log, exp_data, taxes, exp_result, prev>>

\* a tax result kept in one place for all threads instead of a local of the
\* call: every thread sees the last one written
ThreadTaxesSharedLocal(t) ==
    /\ threads[t].pc = "taxes"
    /\ LET c == threads[t].call
           tx == LookUp(ConcurrentTaxes, <<c.gross_income, c.state, tieUp>>)
       IN  threads' =
               IF tx.kind = "error"
               THEN [threads EXCEPT ![t].pc = "raised", ![t].ret = tx]
               ELSE [u \in Callers |->
                        IF u = t
                        THEN [threads[u] EXCEPT !.pc = "expenses", !.taxes = tx]
                        ELSE [threads[u] EXCEPT !.taxes = tx]]
    /\ UNCHANGED <<tieUp, pc, call, ret, log, exp_data, taxes, exp_result, prev>>

\* line 101 in thread t
ThreadTaxes(t) ==
    /\ threads[t].pc = "taxes"
    /\ LET c == threads[t].call
           tx == LookUp(ConcurrentTaxes, <<c.gross_income, c.state, tieUp>>)
       IN  threads' =
               IF tx.kind = "error"
               THEN [threads EXCEPT ![t].pc = "raised", ![t].ret = tx]
               ELSE [threads EXCEPT ![t].pc = "expenses", ![t].taxes = tx]
    /\ UNCHANGED <<tieUp, pc, call, ret, log, exp_data, taxes, exp_result, prev>>

\* lines 104-110 in thread t
ThreadExpenses(t) ==
    /\ threads[t].pc = "expenses"
    /\ LET c == threads[t].call
           e == LookUp(ConcurrentExpenses, <<c, exp_data, tieUp>>)
       IN  threads' =
               IF e.kind = "error"
               THEN [threads EXCEPT ![t].pc = "raised", ![t].ret = e]
               ELSE [threads EXCEPT ![t].pc = "assemble", ![t].exp_result = e]
    /\ UNCHANGED <<tieUp, pc, call, ret, log, exp_data, taxes, exp_result, prev>>

\* lines 112-161 in thread t
ThreadReturn(t) ==
    /\ threads[t].pc = "assemble"
    /\ threads' = [threads EXCEPT
           ![t].pc = "returned",
           ![t].ret = Value(LookUp(ConcurrentResults,
                                   <<threads[t].call, threads[t].taxes.val,
                                     threads[t].exp_result.val, tieUp>>))]
    /\ UNCHANGED <<tieUp, pc, call, ret, log, exp_data, taxes, exp_result, prev>>

\* the caller of thread t takes the outcome and is free to call again
ThreadResume(t) ==
    /\ threads[t].pc \in {"returned", "raised"}
    /\ threads' = [threads EXCEPT ![t] = NoThread]
    /\ UNCHANGED <<tieUp, pc, call, ret, log, exp_data, taxes, exp_result, prev>>

\* the statements of a call under way in thread t
ThreadStep(t) == ThreadTaxes(t) \/ ThreadExpenses(t) \/ ThreadReturn(t)

NextConcurrent ==
    \E t \in Callers :
        \/ ThreadCall(t)
        \/ ThreadTaxes(t)
        \/ ThreadExpenses(t)
        \/ ThreadReturn(t)
        \/ ThreadResume(t)

\* a thread that can run is run in the end: no call waits on another, takes
\* a lock or blocks
SpecConcurrent ==
    /\ Init
    /\ [][NextConcurrent]_vars
    /\ \A t \in Callers : WF_vars(ThreadStep(t))

---------------------------------------------------------------------------
(* What the properties are stated with *)

Returned(fn) == pc = "returned" /\ call.fn = fn
Raised(fn) == pc = "raised" /\ call.fn = fn

\* v is an integer nearest to a * b / c (a, b >= 0, c > 0): at an exact tie
\* either neighbour is
IsNearest(v, a, b, c) ==
    LET qr == MulDivQR(a, b, c)
    IN  \/ v = qr[1] /\ 2 * qr[2] <= c
        \/ v = qr[1] + 1 /\ 2 * qr[2] >= c

\* the same for a of either sign
IsNearestSigned(v, a, b, c) ==
    IF a >= 0 THEN IsNearest(v, a, b, c) ELSE IsNearest(-v, -a, b, c)

\* the arguments compute_disposable_income accepts
AcceptedInput(c) ==
    /\ c.gross_income >= 0
    /\ 0 <= c.age /\ c.age <= 120
    /\ c.state \in DOMAIN STATE_TAX_SCHEDULE

\* the six bounded brackets as the specification gives them: (lower, upper]
\* and the rate in percent; the top bracket, without upper bound, is added
\* by FullProgressiveTax
ClaimedBrackets ==
    << <<0, 11925, 10>>, <<11925, 48475, 12>>, <<48475, 103350, 22>>,
       <<103350, 197300, 24>>, <<197300, 250525, 32>>, <<250525, 626350, 35>> >>

\* the full progressive sum, in cents: every bracket contributes, none is
\* skipped
RECURSIVE ProgressiveSum(_, _)
ProgressiveSum(taxable, n) ==
    IF n = 0 THEN 0
    ELSE ProgressiveSum(taxable, n - 1)
         + ClaimedBrackets[n][3]
           * Max(0, Min(taxable, ClaimedBrackets[n][2]) - ClaimedBrackets[n][1])

FullProgressiveTax(gross_income) ==
    LET taxable == Max(0, gross_income - 15000)
    IN  ProgressiveSum(taxable, Len(ClaimedBrackets)) + 37 * Max(0, taxable - 626350)

---------------------------------------------------------------------------
(* Properties of the specification *)

\* C1: for every accepted input compute_disposable_income raises nothing and
\* returns disposable_income = gross_income - total_tax - total_essential in
\* cents, total_tax being the tax engine's total and total_essential the
\* expenditure engine's total; a negative value is returned like any other.
C1_DisposableIsGrossMinusTaxMinusEssential ==
    (call.fn = "compute_disposable_income" /\ AcceptedInput(call)) =>
        /\ pc # "raised"
        /\ pc = "returned" =>
            /\ ret.kind = "value"
            /\ taxes = compute_all_taxes(call.gross_income, call.state, tieUp)
            /\ exp_result = compute_essential_expenses(call.gross_income, call.age,
                                call.state, exp_data, call.use_region_blend, tieUp)
            /\ ret.val.total_tax = taxes.val.total
            /\ ret.val.total_essential = exp_result.val.total_essential
            /\ ret.val.disposable_income =
                   100 * call.gross_income - ret.val.total_tax - ret.val.total_essential

\* a positive income whose taxes and essential expenses exceed it is returned
\* with its negative disposable income
C1_Witness ==
    /\ Returned("compute_disposable_income")
    /\ call.gross_income > 0
    /\ ret.kind = "value"
    /\ ret.val.disposable_income < 0

\* C2: gross_income < 0 or an age outside [0, 120] ends the call with
\* InvalidInput and no result, before either engine is invoked, whatever the
\* state is (an unknown state included).
C2_InvalidInputRejectedAtEntry ==
    (/\ call.fn = "compute_disposable_income"
     /\ (call.gross_income < 0 \/ call.age < 0 \/ call.age > 120)) =>
        /\ pc = "raised"
        /\ ret = Error(Raise("InvalidInput", "compute_disposable_income"))
        /\ ret.err.type = "ValueError"
        /\ log = <<"compute_disposable_income">>
        /\ taxes = NoLocal
        /\ exp_result = NoLocal

\* an age above 120 with a state no table knows is reported as InvalidInput
C2_Witness ==
    /\ Raised("compute_disposable_income")
    /\ call.gross_income >= 0
    /\ call.age > 120
    /\ call.state \notin DOMAIN STATE_TAX_SCHEDULE
    /\ call.state \notin DOMAIN STATE_TO_REGION
    /\ ret.err.kind = "InvalidInput"

\* C3: di_fraction is disposable_income / gross_income rounded to 4 decimals
\* when gross_income > 0 and is 0 when gross_income is 0, where the call
\* returns as for any other income.
C3_DiFraction ==
    /\ Returned("compute_disposable_income") =>
           IF call.gross_income > 0
           THEN IsNearestSigned(ret.val.di_fraction, ret.val.disposable_income,
                                100, call.gross_income)
           ELSE ret.val.di_fraction = 0
    /\ (/\ call.fn = "compute_disposable_income"
        /\ AcceptedInput(call)
        /\ call.gross_income = 0) => pc # "raised"

\* an income of 0 is returned with a fraction of 0 and a negative disposable
\* income
C3_Witness ==
    /\ Returned("compute_disposable_income")
    /\ call.gross_income = 0
    /\ ret.val.di_fraction = 0
    /\ ret.val.disposable_income < 0

\* C4: compute_federal_tax is the full progressive sum over the seven
\* brackets on taxable = max(0, gross_income - 15,000), the top bracket taxing
\* all above 626,350: leaving the loop early changes nothing.  60,000 gives
\* 5,161.50 and 100,000 gives 13,614.00.
C4_FederalTaxIsFullProgressiveSum ==
    Returned("compute_federal_tax") =>
        /\ ret.val = FullProgressiveTax(call.gross_income)
        /\ call.gross_income = 60000 => ret.val = 516150
        /\ call.gross_income = 100000 => ret.val = 1361400

\* 100,000 leaves the loop in the third bracket
C4_Witness ==
    /\ Returned("compute_federal_tax")
    /\ call.gross_income = 100000
    /\ ret.val = 1361400

\* C5: compute_federal_tax is non-decreasing in gross_income, and between two
\* incomes it rises by at most 37% of their difference.
C5_FederalTaxMonotoneAndBounded ==
    Returned("compute_federal_tax") =>
        \A g1 \in FederalIncomes :
            g1 <= call.gross_income =>
                LET t1 == compute_federal_tax(g1, tieUp)
                IN  /\ t1 <= ret.val
                    /\ ret.val - t1 <= 37 * (call.gross_income - g1)

\* an income in the top bracket, which pays more tax than an income below it
C5_Witness ==
    /\ Returned("compute_federal_tax")
    /\ call.gross_income > STANDARD_DEDUCTION_SINGLE + 626350
    /\ \E g1 \in FederalIncomes :
           /\ g1 < call.gross_income
           /\ compute_federal_tax(g1, tieUp) < ret.val

\* C6: social_security is 176,100 * 0.062 = 10,918.20 for every gross_income
\* >= 176,100 and 6.2% of gross_income, to the nearest cent, below.
C6_SocialSecurityCapped ==
    Returned("compute_fica") =>
        IF call.gross_income >= 176100
        THEN ret.val.social_security = 1091820
        ELSE IsNearest(ret.val.social_security, call.gross_income, 62, 10)

\* an income above the wage base pays the capped amount
C6_Witness ==
    /\ Returned("compute_fica")
    /\ call.gross_income > 176100
    /\ ret.val.social_security = 1091820

\* C7: medicare_surcharge is 0 for gross_income <= 200,000 and 0.9% of the
\* excess over 200,000, to the nearest cent, above; medicare_base is 1.45% of
\* the whole gross_income, to the nearest cent, at every income.
C7_MedicareSurchargeThreshold ==
    Returned("compute_fica") =>
        /\ IF call.gross_income <= 200000
           THEN ret.val.medicare_surcharge = 0
           ELSE IsNearest(ret.val.medicare_surcharge,
                          call.gross_income - 200000, 9, 10)
        /\ IsNearest(ret.val.medicare_base, call.gross_income, 145, 100)

\* an income above the threshold pays a surcharge
C7_Witness ==
    /\ Returned("compute_fica")
    /\ call.gross_income > 200000
    /\ ret.val.medicare_surcharge > 0
    /\ ret.val.medicare_base > 145 * 2000

\* C8: a state without a schedule makes compute_state_tax raise
\* UnknownJurisdiction (a ValueError) and yield no value; compute_all_taxes
\* and compute_disposable_income end with that same error: no fallback, no
\* partial result, no later step.
C8_UnknownStatePropagates ==
    LET unknown == Error(Raise("UnknownJurisdiction", "compute_state_tax"))
    IN  /\ (/\ call.fn \in {"compute_state_tax", "compute_all_taxes"}
            /\ call.state \notin DOMAIN STATE_TAX_SCHEDULE) =>
               /\ pc = "raised"
               /\ ret = unknown
               /\ ret.err.type = "ValueError"
        /\ (/\ call.fn = "compute_disposable_income"
            /\ call.state \notin DOMAIN STATE_TAX_SCHEDULE
            /\ call.gross_income >= 0 /\ 0 <= call.age /\ call.age <= 120) =>
               /\ pc \in {"taxes", "raised"}
               /\ pc = "raised" =>
                      /\ ret = unknown
                      /\ log = <<"compute_disposable_income", "compute_all_taxes">>
                      /\ taxes = NoLocal
                      /\ exp_result = NoLocal

\* compute_disposable_income ended by the tax engine's error for Oregon
C8_Witness ==
    /\ Raised("compute_disposable_income")
    /\ call.state = "Oregon"
    /\ ret.err.kind = "UnknownJurisdiction"
    /\ ret.err.raised_by = "compute_state_tax"

\* C9: for a state whose schedule has one breakpoint compute_state_tax is
\* gross_income times that rate, to the nearest cent, at every income; it is
\* 0.00 when the rate is 0.
C9_FlatStateTax ==
    (/\ Returned("compute_state_tax")
     /\ Len(STATE_TAX_SCHEDULE[call.state]) = 1) =>
        LET rate == STATE_TAX_SCHEDULE[call.state][1][2]
        IN  /\ IsNearest(ret.val, call.gross_income, rate, 100)
            /\ rate = 0 => ret.val = 0
            /\ call.state = "Texas" => ret.val = 0

\* a flat-tax state taxed above every breakpoint of every schedule
C9_Witness ==
    /\ Returned("compute_state_tax")
    /\ call.state = "Michigan"
    /\ call.gross_income > 1000000
    /\ ret.val > 0

\* the rate the specification gives between breakpoints i and i + 1,
\* as <<numerator, denominator>> in basis points
ClaimedInterpolation(schedule, i, income) ==
    LET lo_income == schedule[i][1]
        lo_rate == schedule[i][2]
        hi_income == schedule[i + 1][1]
        hi_rate == schedule[i + 1][2]
    IN  <<lo_rate * (hi_income - lo_income)
            + (income - lo_income) * (hi_rate - lo_rate),
          hi_income - lo_income>>

\* breakpoints i and i + 1 are apart and hold income between them
Brackets(schedule, i, income) ==
    /\ schedule[i][1] <= income
    /\ income <= schedule[i + 1][1]
    /\ schedule[i][1] < schedule[i + 1][1]

\* income is a threshold the schedule lists twice
ListedTwice(schedule, income) ==
    \E i \in 1..(Len(schedule) - 1) :
        schedule[i][1] = income /\ schedule[i + 1][1] = income

\* C10: for a schedule of several breakpoints the tax is gross_income times
\* the effective rate, to the nearest cent, the rate being the last
\* breakpoint's above the last breakpoint and the linear interpolation between
\* adjacent breakpoints that hold the income otherwise: the first such pair
\* in the schedule, and any such pair unless the income is a threshold listed
\* twice.  California at 65,000 is taxed between 6% and 8%.
C10_InterpolatedStateTax ==
    (/\ Returned("compute_state_tax")
     /\ Len(STATE_TAX_SCHEDULE[call.state]) > 1) =>
        LET schedule == STATE_TAX_SCHEDULE[call.state]
            g == call.gross_income
            Taxed(i) == LET r == ClaimedInterpolation(schedule, i, g)
                        IN  IsNearest(ret.val, g, r[1], 100 * r[2])
            pairs == {i \in 1..(Len(schedule) - 1) : Brackets(schedule, i, g)}
        IN  /\ IF g > schedule[Len(schedule)][1]
               THEN IsNearest(ret.val, g, schedule[Len(schedule)][2], 100)
               ELSE /\ pairs # {}
                    /\ Taxed(CHOOSE i \in pairs : \A j \in pairs : i <= j)
                    /\ ~ListedTwice(schedule, g) => \A i \in pairs : Taxed(i)
            /\ (call.state = "California" /\ g = 65000) =>
                   (6 * g < ret.val /\ ret.val < 8 * g)

\* California taxed inside a segment, at a rate between those of its ends
C10_Witness ==
    /\ Returned("compute_state_tax")
    /\ call.state = "California"
    /\ call.gross_income = 60000
    /\ ret.val = 388800

\* the segments of no width of a schedule
ZeroWidth(schedule) ==
    {i \in 1..(Len(schedule) - 1) : schedule[i][1] = schedule[i + 1][1]}

\* C11: for a state whose schedule lists a threshold twice (Virginia, 17,001
\* at 3.0% and at 5.0%) compute_state_tax returns a tax at every income, its
\* rate never a quotient by 0, and at the shared threshold the tax is that of
\* the lower breakpoint's rate of the segment of no width (3.0%: 510.03), not
\* of the upper one (5.0%: 850.05).
C11_ZeroWidthSegment ==
    (/\ call.fn = "compute_state_tax"
     /\ call.state \in DOMAIN STATE_TAX_SCHEDULE
     /\ ZeroWidth(STATE_TAX_SCHEDULE[call.state]) # {}) =>
        LET schedule == STATE_TAX_SCHEDULE[call.state]
            g == call.gross_income
        IN  /\ pc = "returned"
            /\ ret.kind = "value"
            /\ interpolate_rate(schedule, g)[2] > 0
            /\ \A i \in ZeroWidth(schedule) :
                   g = schedule[i][1] =>
                       /\ IsNearest(ret.val, g, schedule[i][2], 100)
                       /\ schedule[i + 1][2] > schedule[i][2] =>
                              ~IsNearest(ret.val, g, schedule[i + 1][2], 100)
            /\ (call.state = "Virginia" /\ g = 17001) => ret.val = 51003

\* Virginia taxed at the threshold its schedule lists twice
C11_Witness ==
    /\ Returned("compute_state_tax")
    /\ call.state = "Virginia"
    /\ call.gross_income = 17001
    /\ ret.val = 51003

\* C12: for a supported state compute_all_taxes returns total = federal +
\* FICA total + state in cents, FICA total = social_security + medicare and
\* medicare = medicare_base + medicare_surcharge, each of the rounded parts;
\* the three effective rates are federal / gross, state / gross and
\* total / gross when gross_income > 0 and 0 when it is 0, and the call
\* returns then too.
C12_AllTaxesTotals ==
    (/\ call.fn = "compute_all_taxes"
     /\ call.state \in DOMAIN STATE_TAX_SCHEDULE) =>
        /\ pc = "returned"
        /\ ret.kind = "value"
        /\ LET r == ret.val
               g == call.gross_income
               Is(rate, amount) ==
                   IF g > 0
                   THEN rate = <<amount, 100 * g>>
                   ELSE rate[1] = 0 /\ rate[2] > 0
           IN  /\ r.federal = compute_federal_tax(g, tieUp)
               /\ r.state = compute_state_tax(g, call.state, tieUp).val
               /\ r.fica.medicare = r.fica.medicare_base + r.fica.medicare_surcharge
               /\ r.fica.total = r.fica.social_security + r.fica.medicare
               /\ r.total = r.federal + r.fica.total + r.state
               /\ Is(r.effective_federal_rate, r.federal)
               /\ Is(r.effective_state_rate, r.state)
               /\ Is(r.effective_total_rate, r.total)

\* an income that pays all of federal tax, surcharge and state tax
C12_Witness ==
    /\ Returned("compute_all_taxes")
    /\ call.gross_income = 250000
    /\ call.state = "California"
    /\ ret.val.fica.medicare_surcharge > 0
    /\ ret.val.state > 0
    /\ ret.val.total = ret.val.federal + ret.val.fica.total + ret.val.state
    /\ ret.val.effective_total_rate = <<ret.val.total, 100 * 250000>>

\* the band of an age, the bands changing at 25, 35, 45, 55, 65 and 75
Band(age) ==
    IF age < 25 THEN "Under 25"
    ELSE IF age < 35 THEN "25-34"
    ELSE IF age < 45 THEN "35-44"
    ELSE IF age < 55 THEN "45-54"
    ELSE IF age < 65 THEN "55-64"
    ELSE IF age < 75 THEN "65-74"
    ELSE "75 and older"

\* C13: get_age_group returns for every age in 0..999 its one band of the
\* seven, the bands changing exactly at 25, 35, 45, 55, 65 and 75 (23 is
\* 'Under 25', 25 is '25-34', 35 is '35-44', 75 and 200 are '75 and older'),
\* and raises OutOfRange (a ValueError) for every age below 0 or above 999.
C13_AgeGroupResolver ==
    call.fn = "get_age_group" =>
        IF 0 <= call.age /\ call.age <= 999
        THEN /\ pc = "returned"
             /\ ret = Value(Band(call.age))
             /\ call.age = 23 => ret.val = "Under 25"
             /\ call.age = 25 => ret.val = "25-34"
             /\ call.age = 35 => ret.val = "35-44"
             /\ call.age \in {75, 200} => ret.val = "75 and older"
        ELSE /\ pc = "raised"
             /\ ret = Error(Raise("OutOfRange", "get_age_group"))
             /\ ret.err.type = "ValueError"

\* the last age of a band resolved to that band
C13_Witness ==
    /\ Returned("get_age_group")
    /\ call.age = 34
    /\ ret.val = "25-34"

\* the 50 states and the District of Columbia
UnitedStates ==
    {"Alabama", "Alaska", "Arizona", "Arkansas", "California", "Colorado",
     "Connecticut", "Delaware", "Florida", "Georgia", "Hawaii", "Idaho",
     "Illinois", "Indiana", "Iowa", "Kansas", "Kentucky", "Louisiana", "Maine",
     "Maryland", "Massachusetts", "Michigan", "Minnesota", "Mississippi",
     "Missouri", "Montana", "Nebraska", "Nevada", "New Hampshire",
     "New Jersey", "New Mexico", "New York", "North Carolina", "North Dakota",
     "Ohio", "Oklahoma", "Oregon", "Pennsylvania", "Rhode Island",
     "South Carolina", "South Dakota", "Tennessee", "Texas", "Utah", "Vermont",
     "Virginia", "Washington", "West Virginia", "Wisconsin", "Wyoming",
     "District of Columbia"}

\* C14: get_region_for_state returns one of Northeast, Midwest, South and
\* West for each of the 50 states and the District of Columbia (California is
\* West, Texas South, New York Northeast, Illinois Midwest) and raises
\* UnknownJurisdiction (a ValueError) for every other string.
C14_RegionResolver ==
    /\ Cardinality(UnitedStates) = 51
    /\ call.fn = "get_region_for_state" =>
        IF call.state \in UnitedStates
        THEN /\ pc = "returned"
             /\ ret.kind = "value"
             /\ ret.val \in {"Northeast", "Midwest", "South", "West"}
             /\ call.state = "California" => ret.val = "West"
             /\ call.state = "Texas" => ret.val = "South"
             /\ call.state = "New York" => ret.val = "Northeast"
             /\ call.state = "Illinois" => ret.val = "Midwest"
        ELSE /\ pc = "raised"
             /\ ret = Error(Raise("UnknownJurisdiction", "get_region_for_state"))
             /\ ret.err.type = "ValueError"

\* a name in another case than the map's is not a state of the map
C14_Witness ==
    /\ Raised("get_region_for_state")
    /\ call.state = "california"
    /\ ret.err.kind = "UnknownJurisdiction"

\* C15: scaling at the reference income changes nothing:
\* _scale_expenditure(B, X, X, beta) = B for every elasticity beta, baseline B
\* and X > 0; so compute_essential_expenses with the salary equal to the
\* reference income of the age group returns scaled = blended baseline in
\* every category.
C15_EngelIdentity ==
    /\ (/\ Returned("_scale_expenditure")
        /\ call.salary > 0
        /\ call.salary = call.avg_income) =>
           ret.val = call.bls_amount
    /\ (/\ Returned("compute_essential_expenses")
        /\ call.salary > 0
        /\ call.salary = ret.val.avg_income_for_age_group) =>
           \A cat \in DOMAIN ret.val.by_category :
               ret.val.by_category[cat].scaled = ret.val.by_category[cat].bls_blended

\* a salary at the reference income of its age group, the baselines positive
\* and the elasticity of a category other than 1
C15_Witness ==
    /\ Returned("compute_essential_expenses")
    /\ call.salary > 0
    /\ call.salary = ret.val.avg_income_for_age_group
    /\ \E cat \in DOMAIN ret.val.by_category :
           /\ ret.val.by_category[cat].beta # 100
           /\ ret.val.by_category[cat].bls_blended > 0
           /\ ret.val.by_category[cat].scaled = ret.val.by_category[cat].bls_blended

\* C16: in every category of a result of compute_essential_expenses the
\* essential amount is at most the scaled amount, and of the totals, each
\* rounded to cents, total_essential is at most total_all.
C16_EssentialAtMostScaled ==
    Returned("compute_essential_expenses") =>
        /\ \A cat \in DOMAIN ret.val.by_category :
               ret.val.by_category[cat].essential <= ret.val.by_category[cat].scaled
        /\ ret.val.total_essential <= ret.val.total_all

\* a salary below the reference income: every scaled amount is below its
\* baseline, and a category that is essential in part only
C16_Witness ==
    /\ Returned("compute_essential_expenses")
    /\ call.salary = 28000
    /\ 0 < ret.val.total_essential
    /\ ret.val.total_essential < ret.val.total_all
    /\ \E cat \in DOMAIN ret.val.by_category :
           /\ ret.val.by_category[cat].alpha = 100
           /\ 0 < ret.val.by_category[cat].scaled
           /\ ret.val.by_category[cat].scaled < ret.val.by_category[cat].bls_blended

\* C17: a call of compute_disposable_income with the arguments of an earlier
\* call ends as that call did, with the same result or the same error,
\* whatever calls lay between the two.
C17_SameArgumentsSameOutcome ==
    (/\ pc \in {"returned", "raised"}
     /\ call.fn = "compute_disposable_income"
     /\ prev.call = call) =>
        ret = prev.ret

\* a second call with the arguments of a kept result has returned, with a
\* tax to pay
C17_Witness ==
    /\ Returned("compute_disposable_income")
    /\ prev.call = call
    /\ prev.ret = ret
    /\ ret.kind = "value"
    /\ ret.val.total_tax > 0

\* the row of the table for the age group of a call, and for its region
RowOfAge(c) == exp_data.by_age[get_age_group(c.age).val]
RowOfRegion(c) == exp_data.by_region[get_region_for_state(c.state).val]

\* C18: in a result of compute_essential_expenses the blended baseline of
\* every category is 0.6 * age-group baseline + 0.4 * region baseline with the
\* regional blend on and the age-group baseline itself with it off, a
\* category that the age-group row or the region row lacks counting 0 on that
\* side and raising nothing.
C18_BlendedBaseline ==
    /\ Returned("compute_essential_expenses") =>
        /\ DOMAIN ret.val.by_category =
               {exp_data.categories[i] : i \in 1..Len(exp_data.categories)}
        /\ \A cat \in DOMAIN ret.val.by_category :
            LET entry == ret.val.by_category[cat]
                age_side == IF cat \in DOMAIN RowOfAge(call)
                            THEN RowOfAge(call)[cat] ELSE 0
                region_side == IF cat \in DOMAIN RowOfRegion(call)
                               THEN RowOfRegion(call)[cat] ELSE 0
            IN  /\ entry.bls_age = age_side
                /\ entry.bls_region = region_side
                /\ IF call.use_region_blend
                   THEN entry.bls_blended
                            = (6 * age_side + 4 * region_side) * (PerDollar \div 10)
                   ELSE entry.bls_blended = age_side * PerDollar
    /\ (/\ call.fn = "compute_essential_expenses"
        /\ 0 <= call.age /\ call.age <= 999
        /\ call.state \in DOMAIN STATE_TO_REGION) => pc = "returned"

\* the blend on, and a category the age-group row has and the region row
\* lacks
C18_Witness ==
    /\ Returned("compute_essential_expenses")
    /\ call.use_region_blend
    /\ \E cat \in DOMAIN ret.val.by_category :
           /\ cat \in DOMAIN RowOfAge(call)
           /\ cat \notin DOMAIN RowOfRegion(call)
           /\ ret.val.by_category[cat].bls_region = 0
           /\ ret.val.by_category[cat].bls_age > 0
           /\ ret.val.by_category[cat].bls_blended
                  = 6 * ret.val.by_category[cat].bls_age * (PerDollar \div 10)

\* C19: the schedule of every state of STATE_TAX_SCHEDULE starts at the
\* threshold 0 and its thresholds are strictly increasing; stated of the
\* schedule compute_state_tax looks up, which is every state's in turn.
C19_SchedulesStrictlyIncreasing ==
    (/\ call.fn = "compute_state_tax"
     /\ call.state \in DOMAIN STATE_TAX_SCHEDULE) =>
        LET schedule == STATE_TAX_SCHEDULE[call.state]
        IN  /\ Len(schedule) >= 1
            /\ schedule[1][1] = 0
            /\ \A i \in 1..(Len(schedule) - 1) : schedule[i][1] < schedule[i + 1][1]

\* the dictionaries of the caller's table (the table, its maps and their
\* rows), each written out as text so that any two can be compared
TableContainers ==
    {ToString(exp_data), ToString(exp_data.by_age), ToString(exp_data.by_region),
     ToString(exp_data.mean_income_by_age)}
        \cup {ToString(exp_data.by_age[ag]) : ag \in DOMAIN exp_data.by_age}
        \cup {ToString(exp_data.by_region[r]) : r \in DOMAIN exp_data.by_region}

\* the dictionaries of a result of compute_disposable_income: the result, its
\* taxes, its expenses, their breakdown and the entries of the breakdown
ResultContainers(r) ==
    {ToString(r), ToString(r.taxes), ToString(r.expenses),
     ToString(r.expenses.by_category)}
        \cup {ToString(r.expenses.by_category[cat]) :
                 cat \in DOMAIN r.expenses.by_category}

\* C20: no step of a call of compute_disposable_income, returning or raising,
\* changes the caller's expenditure table (the calibration tables are
\* definitions of the model, which nothing assigns), and no dictionary of the
\* returned value is a dictionary of the table: none is even equal to one.
C20_TablesUnchanged ==
    /\ [][exp_data' = exp_data]_vars
    /\ [](Returned("compute_disposable_income") =>
              ResultContainers(ret.val) \cap TableContainers = {})

\* a call that read the table, and took the fallback income for want of a
\* mean income in it, has returned: the table is still the one the loader built
C20_Witness ==
    /\ Returned("compute_disposable_income")
    /\ exp_data \in Tables
    /\ log = <<"compute_disposable_income", "compute_all_taxes",
               "compute_essential_expenses">>
    /\ ret.val.expenses.avg_income_for_age_group
           \notin {exp_data.mean_income_by_age[ag] : ag \in DOMAIN exp_data.mean_income_by_age}

\* C22: whenever the reference income or the salary is not positive,
\* _scale_expenditure returns the baseline amount as it is, for every
\* elasticity, and the call returns (no division, no power is taken that
\* could fail); compute_essential_expenses then leaves every category's
\* scaled amount at its blended baseline and reports income_ratio = salary /
\* reference income when the reference income is positive, 1 when it is not.
C22_DegenerateGuard ==
    /\ (/\ call.fn = "_scale_expenditure"
        /\ (call.avg_income <= 0 \/ call.salary <= 0)) =>
           /\ pc = "returned"
           /\ ret = Value(call.bls_amount)
    /\ Returned("compute_essential_expenses") =>
           LET r == ret.val
               avg == r.avg_income_for_age_group
           IN  /\ r.income_ratio = IF avg > 0 THEN <<call.salary, avg>>
                                   ELSE <<1, 1>>
               /\ (avg <= 0 \/ call.salary <= 0) =>
                      \A cat \in DOMAIN r.by_category :
                          r.by_category[cat].scaled = r.by_category[cat].bls_blended

\* a reference income of 0 (the table's mean income of '75 and older') with
\* a salary of 60,000 and a positive baseline: the ratio reported is 1
C22_Witness ==
    /\ Returned("compute_essential_expenses")
    /\ call.salary = 60000
    /\ ret.val.avg_income_for_age_group = 0
    /\ ret.val.income_ratio = <<1, 1>>
    /\ \E cat \in DOMAIN ret.val.by_category :
           /\ ret.val.by_category[cat].bls_blended > 0
           /\ ret.val.by_category[cat].beta # 100
           /\ ret.val.by_category[cat].scaled = ret.val.by_category[cat].bls_blended

\* C26: compute_disposable_income with gross_income = 0, an age in 0..120 and
\* a state of the schedule does not raise; what it returns has every tax
\* component, the total tax and the effective tax rate at 0, every
\* category's scaled amount at its blended baseline, disposable_income =
\* -total_essential, which is negative as soon as a category has a positive
\* essential amount, and di_fraction = 0.
C26_ZeroIncome ==
    (/\ call.fn = "compute_disposable_income"
     /\ AcceptedInput(call)
     /\ call.gross_income = 0) =>
        /\ pc # "raised"
        /\ pc = "returned" =>
               LET r == ret.val
                   by_category == r.expenses.by_category
               IN  /\ \A component \in DOMAIN r.taxes : r.taxes[component] = 0
                   /\ r.total_tax = 0
                   /\ r.effective_tax_rate[1] = 0
                   /\ \A cat \in DOMAIN by_category :
                          by_category[cat].scaled = by_category[cat].bls_blended
                   /\ r.disposable_income = - r.total_essential
                   /\ (\E cat \in DOMAIN by_category :
                           by_category[cat].essential > 0) =>
                          r.disposable_income < 0
                   /\ r.di_fraction = 0

\* an income of 0 in a state whose schedule starts above 0%, returned with a
\* category whose elasticity is not 1 and whose essential amount is positive
C26_Witness ==
    /\ Returned("compute_disposable_income")
    /\ call.gross_income = 0
    /\ STATE_TAX_SCHEDULE[call.state][1][2] > 0
    /\ ret.val.total_essential > 0
    /\ ret.val.disposable_income = - ret.val.total_essential
    /\ \E cat \in DOMAIN ret.val.expenses.by_category :
           /\ ret.val.expenses.by_category[cat].beta # 100
           /\ ret.val.expenses.by_category[cat].essential > 0

\* C23: with gross_income >= 0 and an age in 0..120, compute_disposable_income
\* returns a result only for a state of the tax schedule and raises only for
\* a state outside it; every state of the schedule has a region; for a state
\* outside the schedule, Oregon with its region included, the error is the
\* unknown-state error of compute_state_tax, raised with the expenditure
\* engine not called.
C23_ResultIffScheduled ==
    (/\ call.fn = "compute_disposable_income"
     /\ call.gross_income >= 0
     /\ 0 <= call.age /\ call.age <= 120) =>
        /\ pc = "returned" => call.state \in DOMAIN STATE_TAX_SCHEDULE
        /\ pc = "raised" =>
               /\ call.state \notin DOMAIN STATE_TAX_SCHEDULE
               /\ ret = Error(Raise("UnknownJurisdiction", "compute_state_tax"))
               /\ log = <<"compute_disposable_income", "compute_all_taxes">>
               /\ exp_result = NoLocal
        /\ call.state \in DOMAIN STATE_TAX_SCHEDULE =>
               get_region_for_state(call.state).kind = "value"

\* Oregon, which has a region and no schedule, fails in the tax engine
C23_Witness ==
    /\ Raised("compute_disposable_income")
    /\ call.state = "Oregon"
    /\ get_region_for_state(call.state) = Value("West")
    /\ ret = Error(Raise("UnknownJurisdiction", "compute_state_tax"))
    /\ log = <<"compute_disposable_income", "compute_all_taxes">>

\* a / b <= c / d for a, c >= 0 and b, d > 0, by the continued fractions of
\* the two ratios, so that no product is formed
RECURSIVE FracLeq(_, _, _, _)
FracLeq(a, b, c, d) ==
    LET q1 == a \div b
        q2 == c \div d
        r1 == a % b
        r2 == c % d
    IN  IF q1 # q2 THEN q1 < q2
        ELSE IF r1 = 0 THEN TRUE
        ELSE IF r2 = 0 THEN FALSE
        ELSE FracLeq(d, r2, b, r1)

\* C25: for a state of the schedule and gross_income >= 0 the total of
\* compute_all_taxes is at least 0 and at most gross_income, so that the
\* income after tax is not negative, and it is not below the total of any
\* smaller income; the rate _interpolate_rate gives for the state is not
\* below the rate of any smaller income, and neither is the state tax.
C25_TotalTaxBoundedAndMonotone ==
    /\ (Returned("compute_all_taxes") /\ call.gross_income >= 0) =>
           /\ 0 <= ret.val.total
           /\ ret.val.total <= 100 * call.gross_income
           /\ \A g1 \in AllTaxIncomes :
                  g1 <= call.gross_income =>
                      compute_all_taxes(g1, call.state, tieUp).val.total
                          <= ret.val.total
    /\ (Returned("compute_state_tax") /\ call.gross_income >= 0) =>
           LET schedule == STATE_TAX_SCHEDULE[call.state]
               rate == interpolate_rate(schedule, call.gross_income)
           IN  \A g1 \in StateIncomes(call.state) :
                   g1 <= call.gross_income =>
                       LET rate1 == interpolate_rate(schedule, g1)
                       IN  /\ FracLeq(rate1[1], rate1[2], rate[1], rate[2])
                           /\ compute_state_tax(g1, call.state, tieUp).val <= ret.val

\* an income above the top breakpoint of a graduated schedule, whose total
\* and whose state rate are above those of a smaller income
C25_Witness ==
    /\ Returned("compute_all_taxes")
    /\ Len(STATE_TAX_SCHEDULE[call.state]) > 1
    /\ call.gross_income = 1200000
    /\ 0 < ret.val.total /\ ret.val.total < 100 * call.gross_income
    /\ \E g1 \in AllTaxIncomes :
           /\ g1 < call.gross_income
           /\ compute_all_taxes(g1, call.state, tieUp).val.total < ret.val.total
           /\ ~ FracLeq(interpolate_rate(STATE_TAX_SCHEDULE[call.state], call.gross_income)[1],
                        interpolate_rate(STATE_TAX_SCHEDULE[call.state], call.gross_income)[2],
                        interpolate_rate(STATE_TAX_SCHEDULE[call.state], g1)[1],
                        interpolate_rate(STATE_TAX_SCHEDULE[call.state], g1)[2])

\* by-region tables with other contents than data's: every amount raised by
\* 1,000, every amount 0, and the by-region tables of the other tables
OtherRegionTables(data) ==
    { [r \in DOMAIN data.by_region |->
          [cat \in DOMAIN data.by_region[r] |-> data.by_region[r][cat] + 1000]],
      [r \in DOMAIN data.by_region |->
          [cat \in DOMAIN data.by_region[r] |-> 0]] }
    \cup ({t.by_region : t \in Tables} \ {data.by_region})

\* the amounts of a result that the blend enters: the two totals and every
\* category's blended, scaled and essential amount
BlendAmounts(r) ==
    [ total_essential |-> r.total_essential,
      total_all       |-> r.total_all,
      by_category     |-> [cat \in DOMAIN r.by_category |->
                              <<r.by_category[cat].bls_blended,
                                r.by_category[cat].scaled,
                                r.by_category[cat].essential>>] ]

\* C24: with the regional blend off, the totals and every category's
\* blended, scaled and essential amount of compute_essential_expenses are
\* the same for any contents of the by-region table and for a state of any
\* region; the region is resolved and reported all the same, and a state
\* without a region makes the call raise the unknown-state error of
\* get_region_for_state.
C24_BlendOffIgnoresRegionValues ==
    (call.fn = "compute_essential_expenses" /\ ~ call.use_region_blend) =>
        /\ pc = "returned" =>
               /\ ret.val.region = STATE_TO_REGION[call.state]
               /\ \A by_region \in OtherRegionTables(exp_data) :
                      \A other \in {compute_essential_expenses(
                                        call.salary, call.age, call.state,
                                        [exp_data EXCEPT !.by_region = by_region],
                                        FALSE, tieUp)} :
                          /\ other.kind = "value"
                          /\ BlendAmounts(other.val) = BlendAmounts(ret.val)
               /\ \A state \in EssentialStates \cap DOMAIN STATE_TO_REGION :
                      \A other \in {compute_essential_expenses(
                                        call.salary, call.age, state, exp_data,
                                        FALSE, tieUp)} :
                          /\ other.kind = "value"
                          /\ other.val.region = STATE_TO_REGION[state]
                          /\ BlendAmounts(other.val) = BlendAmounts(ret.val)
        /\ (/\ 0 <= call.age /\ call.age <= 999
            /\ call.state \notin DOMAIN STATE_TO_REGION) =>
               /\ pc = "raised"
               /\ ret = Error(Raise("UnknownJurisdiction", "get_region_for_state"))

\* the blend off with a salary that scales the baselines, in a state whose
\* region row is positive: another by-region table and a state of another
\* region change the region baseline reported and nothing else
C24_Witness ==
    /\ Returned("compute_essential_expenses")
    /\ ~ call.use_region_blend
    /\ call.salary = 250000
    /\ ret.val.total_essential > 0
    /\ \E cat \in DOMAIN ret.val.by_category :
           /\ ret.val.by_category[cat].bls_region > 0
           /\ ret.val.by_category[cat].scaled # ret.val.by_category[cat].bls_blended
    /\ \E by_region \in OtherRegionTables(exp_data),
          state \in EssentialStates \cap DOMAIN STATE_TO_REGION :
           LET other == compute_essential_expenses(
                            call.salary, call.age, state,
                            [exp_data EXCEPT !.by_region = by_region],
                            FALSE, tieUp).val
           IN  /\ other.region # ret.val.region
               /\ \E cat \in DOMAIN ret.val.by_category :
                      other.by_category[cat].bls_region
                          # ret.val.by_category[cat].bls_region
               /\ BlendAmounts(other) = BlendAmounts(ret.val)

\* C21: with the tables built, compute_disposable_income calls running in
\* several threads, their statements interleaved in any order, each end with
\* the outcome the same call has when it runs alone, the tables stay as they
\* were, and every call that was entered ends, by returning or by raising.
C21_ConcurrentCallsIndependent ==
    /\ [](\A t \in Callers :
              threads[t].pc \in {"returned", "raised"} =>
                  threads[t].ret = RunAlone(threads[t].call, exp_data, tieUp))
    /\ [][exp_data' = exp_data]_vars
    /\ \A t \in Callers :
           (threads[t].pc \in {"taxes", "expenses", "assemble"})
               ~> (threads[t].pc \in {"returned", "raised"})

\* two calls with different incomes under way at once, one past its tax
\* step and one before it, and then the first returned with its own taxes
C21_Witness ==
    /\ threads[1].pc = "returned"
    /\ threads[2].pc \in {"expenses", "assemble"}
    /\ threads[1].call.gross_income # threads[2].call.gross_income
    /\ threads[1].ret.val.total_tax # threads[2].taxes.val.total
    /\ threads[1].ret = RunAlone(threads[1].call, exp_data, tieUp)

=============================================================================
